---- MODULE Spec2Model ----
(***************************************************************************)
(* A model of the Odoo JSON-RPC client of src/lib/odoo/client.ts: the      *)
(* cached session (uid, sessionId), the public operations of OdooClient    *)
(* and the private call() they share.  Every invocation of a public        *)
(* operation is a process p; an await on an HTTP exchange is a point where *)
(* other invocations run, and the server's answer to a request is chosen   *)
(* by the environment when the response is delivered.  The model also has  *)
(* the singleton of getOdooClient, the arguments of the operations with    *)
(* the requests built from them, and the service facade of                 *)
(* src/services/odooService.ts.                                            *)
(***************************************************************************)
EXTENDS Integers, FiniteSets, Sequences, TLC

\* The number of invocations that can be in progress at the same time.
NumProcs == 2

Procs == 1..NumProcs

(***************************************************************************)
(* JavaScript values.  A value is a record [t, v]: t is the type tag, v    *)
(* the number (0 for null and undefined).                                  *)
(***************************************************************************)
Null == [t |-> "null", v |-> 0]

Undefined == [t |-> "undefined", v |-> 0]

Num(n) == [t |-> "number", v |-> n]

\* true is Bool(1), false is Bool(0).
Bool(b) == [t |-> "boolean", v |-> b]

\* An array of n records.
List(n) == [t |-> "array", v |-> n]

\* ToBoolean of a value: null, undefined, 0 and false are falsy; an array,
\* also an empty one, is truthy.
Truthy(x) ==
    \/ x.t = "number" /\ x.v # 0
    \/ x.t = "boolean" /\ x.v = 1
    \/ x.t = "array"

(***************************************************************************)
(* The responses of the server.  kind "transport": the HTTP exchange       *)
(* failed (no connection, timeout, a status that is not 2xx) and axios     *)
(* rejects with an AxiosError.  kind "nullBody": a 2xx response whose body *)
(* is the JSON value null.  kind "envelope": a body of type OdooResponse,  *)
(* whose result and error fields are optional.                             *)
(***************************************************************************)
NoError == [code |-> 0, message |-> "", data |-> ""]

\* The user ids and record ids the server answers with (0 is a falsy number).
ResultNums == {0, 7}

\* The text of the error authenticate() throws.
AuthFailedMessage == "Failed to authenticate with Odoo"

\* The error objects the server answers with.
ServerErrors ==
    { [code |-> 400, message |-> "Invalid", data |-> "debug"],
      [code |-> 100, message |-> AuthFailedMessage, data |-> "debug"] }

TransportFailure ==
    [kind |-> "transport", hasResult |-> FALSE, result |-> Undefined,
     hasError |-> FALSE, error |-> NoError]

NullBody ==
    [kind |-> "nullBody", hasResult |-> FALSE, result |-> Undefined,
     hasError |-> FALSE, error |-> NoError]

Envelope(hasR, r, hasE, e) ==
    [kind |-> "envelope", hasResult |-> hasR, result |-> r,
     hasError |-> hasE, error |-> e]

\* An envelope with neither result nor error.
EmptyEnvelope == Envelope(FALSE, Undefined, FALSE, NoError)

\* An envelope with both a result and an error.
BothEnvelope ==
    Envelope(TRUE, Num(7), TRUE, [code |-> 400, message |-> "Invalid", data |-> "debug"])

Responses ==
    {TransportFailure, NullBody, EmptyEnvelope, BothEnvelope}
        \cup { Envelope(TRUE, Num(n), FALSE, NoError) : n \in ResultNums }
        \cup { Envelope(FALSE, Undefined, TRUE, e) : e \in ServerErrors }

\* No response received yet.
NoResponse ==
    [kind |-> "none", hasResult |-> FALSE, result |-> Undefined,
     hasError |-> FALSE, error |-> NoError]

(***************************************************************************)
(* Thrown errors and the outcome of a promise.  A thrown error has a name   *)
(* (its class) and a message; hasCode and hasData say whether the error    *)
(* object has the server's code and data.                                  *)
(***************************************************************************)
NoThrown ==
    [name |-> "", message |-> "", hasCode |-> FALSE, code |-> 0,
     hasData |-> FALSE, data |-> ""]

\* new Error(message)
NewError(m) ==
    [name |-> "Error", message |-> m, hasCode |-> FALSE, code |-> 0,
     hasData |-> FALSE, data |-> ""]

\* The rejection of client.post when the exchange fails.
AxiosError ==
    [name |-> "AxiosError", message |-> "Network Error", hasCode |-> FALSE,
     code |-> 0, hasData |-> FALSE, data |-> ""]

\* The TypeError of reading the property error of a null body.
TypeError ==
    [name |-> "TypeError", message |-> "Cannot read properties of null",
     hasCode |-> FALSE, code |-> 0, hasData |-> FALSE, data |-> ""]

\* axios.isAxiosError
IsAxiosError(e) == e.name = "AxiosError"

Pending == [status |-> "pending", value |-> Undefined, err |-> NoThrown]

Returned(x) == [status |-> "returned", value |-> x, err |-> NoThrown]

Threw(e) == [status |-> "threw", value |-> Undefined, err |-> e]

(***************************************************************************)
(* The operations.                                                         *)
(***************************************************************************)
DataOps == {"searchRead", "create", "write", "unlink", "callMethod"}

Ops == DataOps \cup {"authenticate", "getUserInfo", "logout"}

AuthEndpoint == "/web/session/authenticate"

\* The endpoint of the request an operation sends after authentication.
Endpoint(o) ==
    CASE o = "searchRead" -> "/web/dataset/search_read"
      [] o \in {"create", "write", "unlink", "callMethod"} -> "/web/dataset/call_kw"
      [] o = "getUserInfo" -> "/web/session/get_session_info"
      [] o = "logout" -> "/web/session/destroy"
      [] OTHER -> "none"

DatasetEndpoints == {"/web/dataset/search_read", "/web/dataset/call_kw"}

\* call(): the error thrown for an envelope that carries an error object.
ProtocolError(e) == NewError(e.message)

\* A call() that swallows the error object of an envelope and returns its
\* result.
CallOutcome_SwallowError(d) ==
    IF d.kind = "transport" THEN Threw(AxiosError)
    ELSE IF d.kind = "nullBody" THEN Threw(TypeError)
    ELSE Returned(IF d.hasResult THEN d.result ELSE Undefined)

\* A call() whose catch block wraps what it caught in a new Error.
CallOutcome_WrapCaught(d) ==
    IF d.kind = "transport" THEN Threw(NewError(AxiosError.message))
    ELSE IF d.kind = "nullBody" THEN Threw(TypeError)
    ELSE IF d.hasError THEN Threw(ProtocolError(d.error))
    ELSE Returned(IF d.hasResult THEN d.result ELSE Undefined)

\* A call() that throws when the result is an empty list.
CallOutcome_EmptyIsError(d) ==
    IF d.kind = "transport" THEN Threw(AxiosError)
    ELSE IF d.kind = "nullBody" THEN Threw(TypeError)
    ELSE IF d.hasError THEN Threw(ProtocolError(d.error))
    ELSE IF d.hasResult /\ d.result.t = "array" /\ d.result.v = 0
         THEN Threw(NewError("No records"))
    ELSE Returned(IF d.hasResult THEN d.result ELSE Undefined)

\* A call() that returns `data.result || null`.
CallOutcome_FalsyAsNull(d) ==
    IF d.kind = "transport" THEN Threw(AxiosError)
    ELSE IF d.kind = "nullBody" THEN Threw(TypeError)
    ELSE IF d.hasError THEN Threw(ProtocolError(d.error))
    ELSE Returned(IF d.hasResult /\ d.result.v # 0 THEN d.result ELSE Null)

\* call(): the outcome of the promise call() returns, given the response d.
CallOutcome(d) ==
    IF d.kind = "transport" THEN Threw(AxiosError)
    ELSE IF d.kind = "nullBody" THEN Threw(TypeError)
    ELSE IF d.hasError THEN Threw(ProtocolError(d.error))
    ELSE Returned(IF d.hasResult THEN d.result ELSE Undefined)

\* authenticate(): what its catch block throws for the error call() threw.
AuthenticationError(e) == NewError(AuthFailedMessage)

\* The outcome of the promise of operation o, given the outcome c of its
\* call(): logout() awaits call() and returns nothing, the other operations
\* return what call() returns.
OperationOutcome(o, c) ==
    IF o = "logout" /\ c.status = "returned" THEN Returned(Undefined) ELSE c

\* An authenticate() whose catch block swallows the error and returns
\* undefined.
AuthenticateOutcome_IgnoreFailure(o) ==
    IF o.status = "threw" THEN Returned(Undefined) ELSE o

\* authenticate(): the outcome of its promise, given the outcome of call().
AuthenticateOutcome(o) ==
    IF o.status = "threw" THEN Threw(AuthenticationError(o.err)) ELSE o

\* An authenticate() that returns every cached id that is not null.
HasSession_NotNull(u) == u.t # "null"

\* authenticate(): the guard `if (this.uid) return this.uid`.
HasSession(u) == Truthy(u)

\* logout(): the values it assigns to uid and sessionId.
ClearedSession == Null

\* A response that is a failure of the exchange: no usable HTTP response, an
\* error object, or a body with neither result nor error.
BadResponse(d) ==
    \/ d.kind = "transport"
    \/ d.kind = "nullBody"
    \/ d.kind = "envelope" /\ d.hasError
    \/ d.kind = "envelope" /\ ~d.hasResult /\ ~d.hasError

(***************************************************************************)
(* The configuration.  A config is [url, db]; "" stands for a url or a     *)
(* database name that is missing (undefined or the empty string, both      *)
(* falsy).                                                                 *)
(***************************************************************************)
NoConfig == [url |-> "", db |-> ""]

\* The config of the test 'should create Odoo client'.
TestConfig == [url |-> "https://test.odoo.com", db |-> "test_db"]

\* a || b || '' on strings.
OrString(a, b) == IF a # "" THEN a ELSE b

\* constructor: the config a client keeps, given the config c it was
\* constructed with and the environment e.
NewClientConfig(c, e) ==
    [url |-> OrString(c.url, e.url), db |-> OrString(c.db, e.db)]

\* The configuration of the environment the application is built with.
EnvConfig == [url |-> "https://erp.example.com", db |-> "prod_db"]

\* getOdooClient(): the config it passes to the constructor, given whether
\* it was called with a config, that config and the environment.
GetOdooClientConfig(hasC, c, e) == IF hasC THEN c ELSE e

\* A getOdooClient() that constructs a client whenever it is given a config.
NeedsClient_OnConfig(oc, hasC) == oc = 0 \/ hasC

\* getOdooClient(): the guard `if (!odooClient)`.
NeedsClient(oc, hasC) == oc = 0

\* No call of getOdooClient yet.
NotGot == [later |-> FALSE, instance |-> 0, hasConfig |-> FALSE, config |-> NoConfig]

(***************************************************************************)
(* The arguments of the operations and the requests.  A domain filter is a *)
(* sequence of clauses, a field list a sequence of names; a positional     *)
(* argument of call_kw is an id list or a value bag; a value bag is named  *)
(* by a string; keyword arguments are an object, given by its keys.  An    *)
(* argument the caller leaves out has its has-flag FALSE.                  *)
(***************************************************************************)
\* The k-th string of the caller's data (a date, a search term).
Str(k) == [t |-> "string", v |-> k]

\* The clauses of a domain filter: [field, operator, value] and a logical
\* prefix operator such as '|'.
Triplet(f, o, x) == [field |-> f, operator |-> o, value |-> x]

PrefixOperator(o) == [field |-> "", operator |-> o, value |-> Undefined]

NoOptions ==
    [hasLimit |-> FALSE, limit |-> 0, hasOffset |-> FALSE, offset |-> 0,
     hasOrder |-> FALSE, order |-> ""]

\* The empty object {} as keyword arguments.
EmptyObject == [keys |-> {}, domain |-> <<>>, fields |-> <<>>, groupby |-> <<>>]

NoArgs ==
    [model |-> "", hasDomain |-> FALSE, domain |-> <<>>, hasFields |-> FALSE,
     fields |-> <<>>, hasOptions |-> FALSE, options |-> NoOptions,
     method |-> "", hasArgs |-> FALSE, args |-> <<>>, hasKwargs |-> FALSE,
     kwargs |-> EmptyObject, ids |-> <<>>, values |-> ""]

\* An id list and a value bag as positional arguments of call_kw.
IdsArg(ids) == [k |-> "ids", ids |-> ids, bag |-> ""]

BagArg(b) == [k |-> "bag", ids |-> <<>>, bag |-> b]

NoRequest ==
    [endpoint |-> "none", keys |-> {}, db |-> "", model |-> "", domain |-> <<>>,
     fields |-> <<>>, limit |-> 0, offset |-> 0, sort |-> "", method |-> "",
     args |-> <<>>, kwargs |-> EmptyObject]

\* authenticate(): the request it posts.
AuthRequest(c) ==
    [NoRequest EXCEPT !.endpoint = AuthEndpoint,
                      !.keys = {"db", "login", "password"},
                      !.db = c.db]

\* searchRead(): options.limit || 80 and options.offset || 0, for an option
\* that is supplied (has) with the number n or left out.
OrNumber(has, n, default) == IF has /\ n # 0 THEN n ELSE default

\* A searchRead() that asks for the identifier when the field list is empty.
SearchReadFields_DefaultId(a) ==
    IF a.hasFields /\ a.fields # <<>> THEN a.fields ELSE <<"id">>

\* searchRead(): the field list it sends; a field list left out is [].
SearchReadFields(a) == IF a.hasFields THEN a.fields ELSE <<>>

\* searchRead(): the request it posts.  A domain or options left out take
\* the defaults of the parameters.
SearchReadRequest(a) ==
    LET o == IF a.hasOptions THEN a.options ELSE NoOptions IN
    [NoRequest EXCEPT
        !.endpoint = Endpoint("searchRead"),
        !.keys = {"model", "domain", "fields", "limit", "offset", "sort"},
        !.model = a.model,
        !.domain = IF a.hasDomain THEN a.domain ELSE <<>>,
        !.fields = SearchReadFields(a),
        !.limit = OrNumber(o.hasLimit, o.limit, 80),
        !.offset = OrNumber(o.hasOffset, o.offset, 0),
        !.sort = IF o.hasOrder THEN OrString(o.order, "") ELSE ""]

\* A request to call_kw.
CallKw(model, method, posArgs, kwargs) ==
    [NoRequest EXCEPT
        !.endpoint = "/web/dataset/call_kw",
        !.keys = {"model", "method", "args", "kwargs"},
        !.model = model,
        !.method = method,
        !.args = posArgs,
        !.kwargs = kwargs]

\* create(), write(), unlink(), callMethod(): the request each posts.
CreateRequest(a) == CallKw(a.model, "create", <<BagArg(a.values)>>, EmptyObject)

\* A write() that posts the first id only.
WriteRequest_FirstId(a) ==
    CallKw(a.model, "write", <<IdsArg(<<a.ids[1]>>), BagArg(a.values)>>, EmptyObject)

WriteRequest(a) ==
    CallKw(a.model, "write", <<IdsArg(a.ids), BagArg(a.values)>>, EmptyObject)

\* An unlink() that posts the first id only.
UnlinkRequest_FirstId(a) ==
    CallKw(a.model, "unlink", <<IdsArg(<<a.ids[1]>>)>>, EmptyObject)

UnlinkRequest(a) == CallKw(a.model, "unlink", <<IdsArg(a.ids)>>, EmptyObject)

CallMethodRequest(a) ==
    CallKw(a.model, a.method,
           IF a.hasArgs THEN a.args ELSE <<>>,
           IF a.hasKwargs THEN a.kwargs ELSE EmptyObject)

\* The request operation o posts after authentication, given its arguments.
DataRequest(o, a) ==
    CASE o = "searchRead" -> SearchReadRequest(a)
      [] o = "create" -> CreateRequest(a)
      [] o = "write" -> WriteRequest(a)
      [] o = "unlink" -> UnlinkRequest(a)
      [] o = "callMethod" -> CallMethodRequest(a)
      [] OTHER -> [NoRequest EXCEPT !.endpoint = Endpoint(o)]

(***************************************************************************)
(* The answers of the server to the requests of a caller that runs one     *)
(* operation at a time: a user id, a list of no or of two records, the id  *)
(* of a new record (0 is a falsy number), a boolean, an error object, and  *)
(* an exchange that fails.                                                 *)
(***************************************************************************)
Success(r) == Envelope(TRUE, r, FALSE, NoError)

Invalid ==
    Envelope(FALSE, Undefined, TRUE, [code |-> 400, message |-> "Invalid", data |-> "debug"])

AuthAnswers == {Success(Num(7)), Invalid, TransportFailure}

ResultsOf(o) ==
    CASE o = "searchRead" -> {List(0), List(2)}
      [] o = "create" -> {Num(42), Num(0)}
      [] o \in {"write", "unlink"} -> {Bool(1), Bool(0)}
      [] OTHER -> {List(2)}

Answers(o) == { Success(r) : r \in ResultsOf(o) } \cup {Invalid, TransportFailure}

(***************************************************************************)
(* The records of the server.  The server applies a write request to every *)
(* id of the request or to none, and answers true exactly when it applied  *)
(* it; when the exchange fails the request may have been applied or not.   *)
(***************************************************************************)
\* The number of records on the server.
MaxIds == 2

Ids == 1..MaxIds

\* The id lists of the callers: the non-empty increasing lists of ids.
IdLists ==
    { l \in UNION { [1..n -> Ids] : n \in 1..MaxIds } :
          \A i \in 1..(Len(l) - 1) : l[i] < l[i + 1] }

\* The value bags of the callers.
Bags == {"{name: 'Acme'}", "{name: 'Bolt'}"}

NoRecords == [i \in Ids |-> "{}"]

\* The records after the server applied the write of bag to ids.
ServerWrite(recs, ids, bag) ==
    [i \in Ids |-> IF \E k \in DOMAIN ids : ids[k] = i THEN bag ELSE recs[i]]

\* Whether the server applied the write request it answered with d.
WriteApplied(d) ==
    IF d.kind = "envelope"
    THEN {(~d.hasError) /\ d.hasResult /\ d.result = Bool(1)}
    ELSE BOOLEAN

(***************************************************************************)
(* The service facade.  An operation of the facade takes its input x (the  *)
(* arguments of all the operations in one record; hasLimit, hasOffset and  *)
(* hasProductId say that the optional argument is given) and calls one     *)
(* operation of the client: Call(o, a) is the call of o with arguments a.  *)
(***************************************************************************)
NoInput ==
    [hasLimit |-> FALSE, limit |-> 0, hasOffset |-> FALSE, offset |-> 0,
     id |-> 0, bag |-> "", startDate |-> Str(0), endDate |-> Str(0),
     term |-> Str(0), hasProductId |-> FALSE, productId |-> 0]

NoFacade == [name |-> "none", x |-> NoInput]

Call(o, a) == [op |-> o, args |-> a]

\* client.searchRead(model, domain, fields) and
\* client.searchRead(model, domain, fields, options)
\* A facade whose reads without options ask for a page of 100.
SearchRead3_PageOf100(m, d, f) ==
    Call("searchRead",
         [NoArgs EXCEPT !.model = m, !.hasDomain = TRUE, !.domain = d,
                        !.hasFields = TRUE, !.fields = f,
                        !.hasOptions = TRUE,
                        !.options = [NoOptions EXCEPT !.hasLimit = TRUE,
                                                      !.limit = 100]])

SearchRead3(m, d, f) ==
    Call("searchRead",
         [NoArgs EXCEPT !.model = m, !.hasDomain = TRUE, !.domain = d,
                        !.hasFields = TRUE, !.fields = f])

SearchRead4(m, d, f, o) ==
    Call("searchRead",
         [NoArgs EXCEPT !.model = m, !.hasDomain = TRUE, !.domain = d,
                        !.hasFields = TRUE, !.fields = f,
                        !.hasOptions = TRUE, !.options = o])

\* The value of a parameter with a default (limit = 100, offset = 0).
DefaultParam(has, n, default) == IF has THEN n ELSE default

ProductsGetAll(x) ==
    SearchRead4("product.product", <<>>,
        <<"name", "default_code", "list_price", "standard_price",
          "qty_available", "categ_id">>,
        [NoOptions EXCEPT !.hasLimit = TRUE,
                          !.limit = DefaultParam(x.hasLimit, x.limit, 100)])

ProductsGetById(x) ==
    SearchRead3("product.product", <<Triplet("id", "=", Num(x.id))>>,
        <<"name", "default_code", "list_price", "standard_price",
          "qty_available", "categ_id", "description">>)

ProductsCreate(x) ==
    Call("create", [NoArgs EXCEPT !.model = "product.product", !.values = x.bag])

ProductsUpdate(x) ==
    Call("write", [NoArgs EXCEPT !.model = "product.product",
                                 !.ids = <<x.id>>, !.values = x.bag])

SalesOrdersGetAll(x) ==
    SearchRead4("sale.order", <<>>,
        <<"name", "partner_id", "date_order", "amount_total", "state">>,
        [hasLimit |-> TRUE, limit |-> DefaultParam(x.hasLimit, x.limit, 100),
         hasOffset |-> TRUE, offset |-> DefaultParam(x.hasOffset, x.offset, 0),
         hasOrder |-> TRUE, order |-> "date_order desc"])

SalesOrdersGetByDateRange(x) ==
    SearchRead3("sale.order",
        <<Triplet("date_order", ">=", x.startDate),
          Triplet("date_order", "<=", x.endDate)>>,
        <<"name", "partner_id", "date_order", "amount_total", "state",
          "order_line">>)

SalesOrdersCreate(x) ==
    Call("create", [NoArgs EXCEPT !.model = "sale.order", !.values = x.bag])

PartnersGetAll(x) ==
    SearchRead4("res.partner", <<Triplet("is_company", "=", Bool(1))>>,
        <<"name", "email", "phone", "city", "country_id">>,
        [NoOptions EXCEPT !.hasLimit = TRUE,
                          !.limit = DefaultParam(x.hasLimit, x.limit, 100)])

PartnersSearch(x) ==
    SearchRead3("res.partner",
        <<PrefixOperator("|"), Triplet("name", "ilike", x.term),
          Triplet("email", "ilike", x.term)>>,
        <<"name", "email", "phone", "city">>)

PartnersCreate(x) ==
    Call("create", [NoArgs EXCEPT !.model = "res.partner", !.values = x.bag])

\* getStock: productId ? [['product_id', '=', productId]] : []
InventoryGetStock(x) ==
    SearchRead3("stock.quant",
        IF x.hasProductId /\ x.productId # 0
        THEN <<Triplet("product_id", "=", Num(x.productId))>>
        ELSE <<>>,
        <<"product_id", "location_id", "quantity", "reserved_quantity">>)

InventoryGetStockMoves(x) ==
    SearchRead4("stock.move", <<>>,
        <<"name", "product_id", "product_uom_qty", "date", "state",
          "location_id", "location_dest_id">>,
        [NoOptions EXCEPT !.hasLimit = TRUE,
                          !.limit = DefaultParam(x.hasLimit, x.limit, 100),
                          !.hasOrder = TRUE, !.order = "date desc"])

AnalyticsGetSalesReport(x) ==
    Call("callMethod",
         [NoArgs EXCEPT
            !.model = "sale.report", !.method = "read_group",
            !.hasArgs = TRUE, !.args = <<>>,
            !.hasKwargs = TRUE,
            !.kwargs = [keys |-> {"domain", "fields", "groupby"},
                        domain |-> <<Triplet("date", ">=", x.startDate),
                                     Triplet("date", "<=", x.endDate)>>,
                        fields |-> <<"product_id", "price_total", "product_uom_qty">>,
                        groupby |-> <<"product_id">>]])

FacadeOps ==
    {"products.getAll", "products.getById", "products.create", "products.update",
     "salesOrders.getAll", "salesOrders.getByDateRange", "salesOrders.create",
     "partners.getAll", "partners.search", "partners.create",
     "inventory.getStock", "inventory.getStockMoves", "analytics.getSalesReport"}

\* The call of the client that operation f of the facade makes for input x.
FacadeCall(f, x) ==
    CASE f = "products.getAll" -> ProductsGetAll(x)
      [] f = "products.getById" -> ProductsGetById(x)
      [] f = "products.create" -> ProductsCreate(x)
      [] f = "products.update" -> ProductsUpdate(x)
      [] f = "salesOrders.getAll" -> SalesOrdersGetAll(x)
      [] f = "salesOrders.getByDateRange" -> SalesOrdersGetByDateRange(x)
      [] f = "salesOrders.create" -> SalesOrdersCreate(x)
      [] f = "partners.getAll" -> PartnersGetAll(x)
      [] f = "partners.search" -> PartnersSearch(x)
      [] f = "partners.create" -> PartnersCreate(x)
      [] f = "inventory.getStock" -> InventoryGetStock(x)
      [] f = "inventory.getStockMoves" -> InventoryGetStockMoves(x)
      [] OTHER -> AnalyticsGetSalesReport(x)

\* An operation of the facade that answers a failure with an empty list.
FacadeResult_EmptyOnError(o) ==
    IF o.status = "threw" THEN Returned(List(0)) ELSE o

\* `return client.searchRead(...)` in an async function: the promise of the
\* operation of the facade takes the outcome o of the promise of the client.
FacadeResult(o) == o

(***************************************************************************)
(* The state.  uid and sessionId are the fields of the client.  For each   *)
(* invocation p: op is the operation, pc its position, inflight the        *)
(* endpoint of the request it is awaiting, resp the response that settled  *)
(* it, outcome the state of the promise its caller holds.  nAuth and *)
(* nCall count the requests p sent to the authentication endpoint and to   *)
(* the endpoint of its operation; cachedAtStart says that p found a        *)
(* session when it started; sawFailure that one of its requests ended in a *)
(* bad response.  The history of the client: authed is the id the last     *)
(* successful authenticate() returned since the last logout(); lastWriter  *)
(* the operation that assigned uid last; afterLogout says that logout()    *)
(* ran and no authenticate() or data operation has started since;          *)
(* authEverSent that an authentication request was ever sent.              *)
(***************************************************************************)
VARIABLES uid, sessionId, op, pc, inflight, resp, outcome, nAuth, nCall,
          cachedAtStart, sawFailure, authed, lastWriter, afterLogout, authEverSent

(***************************************************************************)
(* The client and its caller.  env is import.meta.env, odooClient the      *)
(* module's singleton (0 is null, k > 0 the k-th client constructed),      *)
(* built the number of clients constructed and config the config field of  *)
(* the client; got records the last call of getOdooClient.  args are the   *)
(* arguments of the operation in progress and request is the request the   *)
(* client posted last.  facade is the operation of the service facade in   *)
(* progress and facadeOutcome the state of the promise its caller holds.   *)
(* records are the value bags of the records on the server and before is   *)
(* their state when the request in flight was posted.                      *)
(***************************************************************************)
VARIABLES env, odooClient, built, config, got, args, request, facade,
          facadeOutcome, records, before

clientVars == <<uid, sessionId, op, pc, inflight, resp, outcome, nAuth, nCall,
                cachedAtStart, sawFailure, authed, lastWriter, afterLogout,
                authEverSent>>

callVars == <<env, odooClient, built, config, got, args, request, facade,
              facadeOutcome, records, before>>

(***************************************************************************)
(* The hooks of the application: hooks is the component that mounts them,  *)
(* with one instance of each.  auth is useAuth with the useProtectedRoute  *)
(* that reads it, table is useRealtimeTable and bcast is useBroadcast.     *)
(***************************************************************************)
VARIABLES hooks

hookVars == <<hooks>>

vars == <<clientVars, callVars, hookVars>>

auth == hooks.auth

table == hooks.table

bcast == hooks.bcast

(***************************************************************************)
(* useAuth.  A user and a session are represented by the id of the user,   *)
(* 0 for null; a profile by its role.  The SDK reports auth events to the  *)
(* handler the effect subscribed; each fetchProfile is answered later, in  *)
(* any order.  state is the state with the queued changes applied, which   *)
(* the next render reads, and user the user the last render read, which    *)
(* the updateProfile of that render tests.  calls holds the functions of   *)
(* the hook whose SDK call is not answered yet.                            *)
(***************************************************************************)
\* The number of auth events the SDK reports to one mounted hook.
MaxEvents == 2

\* The number of calls of the functions the hook returns that wait for
\* their answer at one time.
MaxCalls == 1

\* The functions of the hook that set `loading` before their SDK call.
SignFunctions ==
    {"signUp", "signIn", "signInWithMagicLink", "signInWithOAuth", "signOut"}

UserRoles == {"executive", "regional_manager", "analyst", "store_owner"}

NoUser == 0

SessionUsers == {1, 2}

NoProfile == [role |-> "null"]

\* fetchProfile: the row of the user, or null when the query failed.
Profiles == { [role |-> r] : r \in UserRoles } \cup {NoProfile}

\* useState: the state of the first render.
InitialAuthState ==
    [user |-> NoUser, session |-> NoUser, profile |-> NoProfile,
     loading |-> TRUE, error |-> FALSE]

\* The state set for a session with a user.
SignedInState(u, r) ==
    [user |-> u, session |-> u, profile |-> r, loading |-> FALSE, error |-> FALSE]

\* The state the handler sets for an event without a session.
SignedOutState ==
    [user |-> NoUser, session |-> NoUser, profile |-> NoProfile,
     loading |-> FALSE, error |-> FALSE]

\* allowedRoles.includes(role)
Includes(roles, r) == \E i \in DOMAIN roles : roles[i] = r

\* The allowedRoles argument of useProtectedRoute: left out, or a list.
NoAllowedRoles == [given |-> FALSE, list |-> <<>>]

AllowedRolesChoices ==
    {NoAllowedRoles} \cup
    { [given |-> TRUE, list |-> l] :
          l \in {<<>>, <<"executive">>, <<"analyst", "store_owner">>} }

\* A useProtectedRoute that does not wait for the profile.
IsAllowed_WithoutProfile(st, a) ==
    IF st.user = NoUser THEN FALSE
    ELSE IF ~a.given \/ Len(a.list) = 0 THEN TRUE
    ELSE st.profile = NoProfile \/ Includes(a.list, st.profile.role)

\* useProtectedRoute: isAllowed.
IsAllowed(st, a) ==
    IF st.user = NoUser THEN FALSE
    ELSE IF ~a.given \/ Len(a.list) = 0 THEN TRUE
    ELSE IF st.profile = NoProfile THEN FALSE
    ELSE Includes(a.list, st.profile.role)

\* useProtectedRoute: what it returns in a render with the state st.
UseProtectedRoute(st, a) ==
    [isAllowed |-> IsAllowed(st, a), isLoading |-> st.loading,
     user |-> st.user, profile |-> st.profile]

\* The hook after its first render and its effect: initAuth awaits
\* getSession and the handler is subscribed.
AuthMounted ==
    [state |-> InitialAuthState, user |-> NoUser, mounted |-> TRUE,
     init |-> [at |-> "getSession", user |-> NoUser],
     handlers |-> [u \in SessionUsers |-> 0], events |-> 0, last |-> NoUser,
     calls |-> {}]

\* setState; React drops the update of a component that is unmounted.
SetState(st) == IF auth.mounted THEN st ELSE auth.state

\* initAuth: getSession is answered with an error or with the session of u.
GetSessionAnswer ==
    /\ auth.init.at = "getSession"
    /\ \E error \in BOOLEAN, u \in SessionUsers \cup {NoUser} :
        /\ error => u = NoUser
        /\ hooks' = [hooks EXCEPT !.auth =
             IF error
             THEN [auth EXCEPT !.init.at = "done",
                               !.state = SetState([auth.state EXCEPT !.error = TRUE,
                                                                      !.loading = FALSE])]
             ELSE IF u # NoUser /\ auth.mounted
             THEN [auth EXCEPT !.init = [at |-> "fetchProfile", user |-> u]]
             ELSE [auth EXCEPT !.init.at = "done",
                               !.state = SetState([auth.state EXCEPT !.loading = FALSE])]]
    /\ UNCHANGED <<clientVars, callVars>>

\* initAuth: the profile of the user of the initial session is fetched.
InitProfileFetched ==
    /\ auth.init.at = "fetchProfile"
    /\ \E r \in Profiles :
        hooks' = [hooks EXCEPT !.auth = [auth EXCEPT !.init.at = "done",
                             !.state = SetState(SignedInState(auth.init.user, r))]]
    /\ UNCHANGED <<clientVars, callVars>>

\* The handler of onAuthStateChange is called with the session of u (none
\* when u is 0): it sets the signed-out state, or starts to fetch the
\* profile.
AuthStateChange(u) ==
    /\ auth.mounted
    /\ auth.events < MaxEvents
    /\ hooks' = [hooks EXCEPT !.auth =
         IF u # NoUser
         THEN [auth EXCEPT !.events = @ + 1, !.last = u,
                           !.handlers[u] = @ + 1]
         ELSE [auth EXCEPT !.events = @ + 1, !.last = u,
                           !.state = SetState(SignedOutState)]]
    /\ UNCHANGED <<clientVars, callVars>>

\* A handler called with the session of u resumes after `await
\* fetchProfile` and sets the state.
ProfileFetched(u) ==
    /\ auth.handlers[u] > 0
    /\ \E r \in Profiles :
        hooks' = [hooks EXCEPT !.auth = [auth EXCEPT !.handlers[u] = @ - 1,
                             !.state = SetState(SignedInState(u, r))]]
    /\ UNCHANGED <<clientVars, callVars>>

\* The render that follows a state change reads the state: with another
\* user it makes the updateProfile that tests that user.
AuthRender ==
    /\ auth.mounted
    /\ auth.user # auth.state.user
    /\ hooks' = [hooks EXCEPT !.auth = [auth EXCEPT !.user = auth.state.user]]
    /\ UNCHANGED <<clientVars, callVars>>

\* signUp, signIn, signInWithMagicLink, signInWithOAuth or signOut is
\* called: it sets loading, clears the error and calls the SDK.
SignCall(fn) ==
    /\ Cardinality(auth.calls) < MaxCalls
    /\ fn \notin auth.calls
    /\ hooks' = [hooks EXCEPT !.auth =
         [auth EXCEPT !.calls = @ \cup {fn},
                      !.state = SetState([auth.state EXCEPT !.loading = TRUE,
                                                             !.error = FALSE])]]
    /\ UNCHANGED <<clientVars, callVars>>

\* The promise of the SDK call of fn settles: it fulfils with data, fulfils
\* with an error, or rejects.  An error ends loading and is kept; with data
\* only signInWithMagicLink sets the state, the others leave it to the
\* handler of the auth event; a rejection is thrown at the await, before
\* any setState.
SignAnswer(fn) ==
    /\ fn \in auth.calls
    /\ \E answer \in {"data", "error", "rejects"} :
        hooks' = [hooks EXCEPT !.auth =
          [auth EXCEPT !.calls = @ \ {fn},
                       !.state = IF answer = "error"
                                     \/ (answer = "data" /\ fn = "signInWithMagicLink")
                                 THEN SetState([auth.state EXCEPT !.loading = FALSE,
                                                                  !.error = (answer = "error")])
                                 ELSE auth.state]]
    /\ UNCHANGED <<clientVars, callVars>>

\* updateProfile of the last render is called: with a user in the state
\* that render read it updates the row, without one it throws.
UpdateProfileCall ==
    /\ Cardinality(auth.calls) < MaxCalls
    /\ "updateProfile" \notin auth.calls
    /\ hooks' = [hooks EXCEPT !.auth =
         IF auth.user # NoUser
         THEN [auth EXCEPT !.calls = @ \cup {"updateProfile"}]
         ELSE auth]
    /\ UNCHANGED <<clientVars, callVars>>

\* The update of the row is answered, with an error (or its promise
\* rejects) or with the row: the row becomes the profile of the state.
UpdateProfileAnswer ==
    /\ "updateProfile" \in auth.calls
    /\ \E error \in BOOLEAN, r \in Profiles \ {NoProfile} :
        hooks' = [hooks EXCEPT !.auth =
          [auth EXCEPT !.calls = @ \ {"updateProfile"},
                       !.state = IF error THEN auth.state
                                 ELSE SetState([auth.state EXCEPT !.profile = r])]]
    /\ UNCHANGED <<clientVars, callVars>>

\* The cleanup of the effect.
AuthUnmount ==
    /\ auth.mounted
    /\ hooks' = [hooks EXCEPT !.auth = [auth EXCEPT !.mounted = FALSE]]
    /\ UNCHANGED <<clientVars, callVars>>

(***************************************************************************)
(* useRealtimeTable.  A row is [id, v].  The caller leaves initialData out *)
(* or passes a list, which is the same array in every render (stable) or a *)
(* new array with the same rows in every render.  The handler and the      *)
(* subscribe callback queue state changes; the render that follows and the *)
(* effect of that render are tasks of their own, so that other callbacks   *)
(* can run between them.  data, isConnected and error are the state with   *)
(* the queued changes applied, shown is what the last render returned.     *)
(***************************************************************************)
\* The number of change events delivered to one mounted hook.
MaxChanges == 2

RowIds == {1, 2}

Rows == { [id |-> i, v |-> x] : i \in RowIds, x \in {"a", "b"} }

\* The lists the caller passes as initialData.
InitialLists ==
    {<<>>, <<[id |-> 1, v |-> "a"]>>,
     <<[id |-> 1, v |-> "a"], [id |-> 2, v |-> "a"]>>}

\* prev.map(item => item.id === newRecord.id ? newRecord : item)
RECURSIVE MapReplace(_, _)
MapReplace(prev, newRecord) ==
    IF prev = <<>> THEN <<>>
    ELSE <<IF Head(prev).id = newRecord.id THEN newRecord ELSE Head(prev)>>
             \o MapReplace(Tail(prev), newRecord)

\* prev.filter(item => item.id !== oldRecord.id)
RECURSIVE FilterOut(_, _)
FilterOut(prev, oldRecord) ==
    IF prev = <<>> THEN <<>>
    ELSE (IF Head(prev).id # oldRecord.id THEN <<Head(prev)>> ELSE <<>>)
             \o FilterOut(Tail(prev), oldRecord)

\* The payloads of the change events: the event type with its new and its
\* old record.
Changes ==
    { [eventType |-> t, record |-> r] :
          t \in {"INSERT", "UPDATE", "DELETE"}, r \in Rows }

\* The handler of the change events: the list it sets for the payload e.
ApplyChange(prev, e) ==
    CASE e.eventType = "INSERT" -> Append(prev, e.record)
      [] e.eventType = "UPDATE" -> MapReplace(prev, e.record)
      [] e.eventType = "DELETE" -> FilterOut(prev, e.record)
      [] OTHER -> prev

\* The hook after its first render and its effects.  given says that the
\* caller passed initialData and stable that it is the same array in every
\* render; the default `initialData = []` is a new array in every render.
\* render says that a state change waits for its render, effect that the
\* effect `setData(initialData)` of the last render is to run.
TableMounted(given, stable, l) ==
    [given |-> given, stable |-> given /\ stable,
     initialData |-> IF given THEN l ELSE <<>>,
     data |-> IF given THEN l ELSE <<>>,
     isConnected |-> FALSE, error |-> "null",
     shown |-> [data |-> IF given THEN l ELSE <<>>,
                isConnected |-> FALSE, error |-> "null"],
     render |-> FALSE, effect |-> FALSE, mounted |-> TRUE,
     changes |-> <<>>]

\* A change event is delivered to the handler: setData with the function
\* of the event, which makes a new array.
TableChange(e) ==
    /\ table.mounted
    /\ Len(table.changes) < MaxChanges
    /\ hooks' = [hooks EXCEPT !.table = [table EXCEPT !.data = ApplyChange(@, e),
                                          !.changes = Append(@, e),
                                          !.render = TRUE]]
    /\ UNCHANGED <<clientVars, callVars>>

\* The subscribe callback is called with a status.  The Error it sets is a
\* new object; a state set to the value it has asks for no render.
TableStatus(status) ==
    /\ table.mounted
    /\ hooks' = [hooks EXCEPT !.table =
         CASE status = "SUBSCRIBED" ->
                [table EXCEPT !.isConnected = TRUE, !.error = "null",
                              !.render = @ \/ ~table.isConnected
                                           \/ table.error # "null"]
           [] status = "CHANNEL_ERROR" ->
                [table EXCEPT !.isConnected = FALSE,
                              !.error = "Failed to subscribe to realtime channel",
                              !.render = TRUE]
           [] status = "TIMED_OUT" ->
                [table EXCEPT !.isConnected = FALSE,
                              !.error = "Realtime subscription timed out",
                              !.render = TRUE]
           [] OTHER -> table]
    /\ UNCHANGED <<clientVars, callVars>>

\* A render of the component, which a state change of the hook or its
\* parent causes, returns the state; its effect `setData(initialData)` is to
\* run when initialData is not the array of the render before.
TableRender ==
    /\ table.mounted
    /\ ~table.effect
    /\ hooks' = [hooks EXCEPT !.table =
         [table EXCEPT !.shown = [data |-> table.data,
                                  isConnected |-> table.isConnected,
                                  error |-> table.error],
                       !.render = FALSE,
                       !.effect = ~table.stable]]
    /\ UNCHANGED <<clientVars, callVars>>

\* The effect `setData(initialData)` of the last render, with the new array
\* of that render.
TableEffect ==
    /\ table.mounted
    /\ table.effect
    /\ hooks' = [hooks EXCEPT !.table = [table EXCEPT !.data = table.initialData,
                                          !.effect = FALSE,
                                          !.render = TRUE]]
    /\ UNCHANGED <<clientVars, callVars>>

\* The cleanup of the effect removes the channel.
TableUnmount ==
    /\ table.mounted
    /\ ~table.effect
    /\ hooks' = [hooks EXCEPT !.table = [table EXCEPT !.mounted = FALSE]]
    /\ UNCHANGED <<clientVars, callVars>>

(***************************************************************************)
(* useBroadcast.  channelRef is 0 for null and k for the k-th channel the  *)
(* effect created; status is the status the subscribe callback of that     *)
(* channel reported last, "none" before its first report.  isConnected is  *)
(* the state setIsConnected set and rendered the value of it that the last *)
(* render read, which the broadcast() of that render tests.  A render and  *)
(* the effect of a render are tasks of their own.  sent and messages count *)
(* the payloads sent on the channel and received from it, calls the calls  *)
(* of broadcast() and last what the last call did.                         *)
(***************************************************************************)
\* The number of calls of broadcast() and of messages received.
MaxPayloads == 2

\* The number of channels the effect creates: one, and one for each change
\* of channelName or eventName.
MaxChannels == 2

SubscribeStatuses == {"SUBSCRIBED", "CHANNEL_ERROR", "TIMED_OUT", "CLOSED"}

\* The hook after its first render and its effect.
BroadcastMounted ==
    [channelRef |-> 1, status |-> "none", isConnected |-> FALSE,
     rendered |-> FALSE, effect |-> FALSE,
     mounted |-> TRUE, sent |-> 0, messages |-> 0, calls |-> 0, last |-> "none"]

\* The subscribe callback the effect gave to its k-th channel is called
\* with a status: setIsConnected queues the value for the next render.  The
\* callback of a channel the cleanup removed sets the same state.
BroadcastStatus(k, status) ==
    /\ k \in 1..bcast.channelRef
    /\ hooks' = [hooks EXCEPT !.bcast =
         [bcast EXCEPT !.status = IF k = bcast.channelRef THEN status ELSE @,
                       !.isConnected = (status = "SUBSCRIBED")]]
    /\ UNCHANGED <<clientVars, callVars>>

\* The render that follows a change of isConnected: it reads the state and
\* makes the broadcast() that tests the value read.
BroadcastRender ==
    /\ bcast.mounted
    /\ ~bcast.effect
    /\ bcast.rendered # bcast.isConnected
    /\ hooks' = [hooks EXCEPT !.bcast = [bcast EXCEPT !.rendered = bcast.isConnected]]
    /\ UNCHANGED <<clientVars, callVars>>

\* A message arrives on the channel.
BroadcastReceive ==
    /\ bcast.channelRef # 0
    /\ bcast.messages < MaxPayloads
    /\ hooks' = [hooks EXCEPT !.bcast = [bcast EXCEPT !.messages = @ + 1]]
    /\ UNCHANGED <<clientVars, callVars>>

\* A broadcast() that tests only the channel.
ShouldSend_ChannelOnly(b) == b.channelRef # 0

\* broadcast(): the guard `channelRef.current && isConnected`, with the
\* isConnected of the render that made the function.
ShouldSend(b) == b.channelRef # 0 /\ b.rendered

\* The caller calls the broadcast() of the last render with a payload.
Broadcast ==
    /\ bcast.calls < MaxPayloads
    /\ hooks' = [hooks EXCEPT !.bcast = IF ShouldSend(bcast)
                THEN [bcast EXCEPT !.calls = @ + 1, !.sent = @ + 1, !.last = "sent"]
                ELSE [bcast EXCEPT !.calls = @ + 1, !.last = "nothing"]]
    /\ UNCHANGED <<clientVars, callVars>>

\* The component renders with another channelName or eventName: the effect
\* of this render is to run.
BroadcastChannelChange ==
    /\ bcast.mounted
    /\ ~bcast.effect
    /\ bcast.channelRef < MaxChannels
    /\ hooks' = [hooks EXCEPT !.bcast = [bcast EXCEPT !.rendered = bcast.isConnected,
                                                      !.effect = TRUE]]
    /\ UNCHANGED <<clientVars, callVars>>

\* The effect of a render with another channelName or eventName: the
\* cleanup of the effect before removes the channel, and the effect creates
\* and subscribes the next one.
BroadcastEffect ==
    /\ bcast.effect
    /\ hooks' = [hooks EXCEPT !.bcast = [bcast EXCEPT !.channelRef = @ + 1,
                              !.status = "none", !.effect = FALSE]]
    /\ UNCHANGED <<clientVars, callVars>>

\* The cleanup of the effect removes the channel.
BroadcastUnmount ==
    /\ bcast.mounted
    /\ ~bcast.effect
    /\ hooks' = [hooks EXCEPT !.bcast = [bcast EXCEPT !.mounted = FALSE, !.channelRef = 0,
                              !.status = "none"]]
    /\ UNCHANGED <<clientVars, callVars>>

\* A hook that is not mounted, and no component that mounts hooks.
Unmounted == "unmounted"

\* No hook is mounted.
HooksIdle == hooks = Unmounted

(***************************************************************************)
(* The client.                                                             *)
(***************************************************************************)
NotAuthed == [ok |-> FALSE, id |-> Undefined]

\* No settled promise is waiting for its caller.  The continuation of the
\* caller of a settled promise runs before the event loop delivers the next
\* response, and what the caller starts it starts from that continuation.
Quiet == \A q \in DOMAIN pc : pc[q] # "done"

\* The fields of a new client, with no invocation in progress among P.
ClientInit(P) ==
    /\ uid = Null
    /\ sessionId = Null
    /\ op = [p \in P |-> "none"]
    /\ pc = [p \in P |-> "idle"]
    /\ inflight = [p \in P |-> "none"]
    /\ resp = [p \in P |-> NoResponse]
    /\ outcome = [p \in P |-> Pending]
    /\ nAuth = [p \in P |-> 0]
    /\ nCall = [p \in P |-> 0]
    /\ cachedAtStart = [p \in P |-> FALSE]
    /\ sawFailure = [p \in P |-> FALSE]
    /\ authed = NotAuthed
    /\ lastWriter = "none"
    /\ afterLogout = FALSE
    /\ authEverSent = FALSE

\* A client constructed with the url and the database of the tests, whose
\* callers' arguments are left out.
TestClient ==
    /\ ClientInit(Procs)
    /\ env = NoConfig
    /\ odooClient = 1
    /\ built = 1
    /\ config = NewClientConfig(TestConfig, NoConfig)
    /\ got = [later |-> FALSE, instance |-> 1, hasConfig |-> TRUE, config |-> TestConfig]
    /\ args = NoArgs
    /\ request = NoRequest
    /\ facade = NoFacade
    /\ facadeOutcome = Pending
    /\ records = NoRecords
    /\ before = NoRecords

\* No caller whose arguments, requests and records are followed.
NoCaller == "none"

\* The client of the tests alone, without the callers of SpecCalls.
Init ==
    /\ ClientInit(Procs)
    /\ env = NoConfig
    /\ odooClient = 1
    /\ built = 1
    /\ config = NewClientConfig(TestConfig, NoConfig)
    /\ got = NoCaller
    /\ args = NoCaller
    /\ request = NoCaller
    /\ facade = NoCaller
    /\ facadeOutcome = NoCaller
    /\ records = NoCaller
    /\ before = NoCaller
    /\ HooksIdle

\* The synchronous part of authenticate(), run by operation o of p: with a
\* session it returns the cached id, without one it posts the credentials.
BeginAuthenticate(p, o) ==
    /\ pc[p] = "idle"
    /\ Quiet
    /\ op' = [op EXCEPT ![p] = o]
    /\ cachedAtStart' = [cachedAtStart EXCEPT ![p] = HasSession(uid)]
    /\ IF HasSession(uid)
       THEN /\ IF o = "authenticate"
               THEN /\ pc' = [pc EXCEPT ![p] = "done"]
                    /\ outcome' = [outcome EXCEPT ![p] = Returned(uid)]
               ELSE /\ pc' = [pc EXCEPT ![p] = "afterAuth"]
                    /\ outcome' = outcome
            /\ authed' = [ok |-> TRUE, id |-> uid]
            /\ UNCHANGED <<inflight, nAuth, authEverSent>>
       ELSE /\ pc' = [pc EXCEPT ![p] = "authWait"]
            /\ inflight' = [inflight EXCEPT ![p] = AuthEndpoint]
            /\ nAuth' = [nAuth EXCEPT ![p] = @ + 1]
            /\ authEverSent' = TRUE
            /\ UNCHANGED <<outcome, authed>>
    /\ afterLogout' = FALSE
    /\ UNCHANGED <<uid, sessionId, resp, nCall, sawFailure, lastWriter>>

Authenticate(p) == BeginAuthenticate(p, "authenticate")

SearchRead(p) == BeginAuthenticate(p, "searchRead")

Create(p) == BeginAuthenticate(p, "create")

Write(p) == BeginAuthenticate(p, "write")

Unlink(p) == BeginAuthenticate(p, "unlink")

CallMethod(p) == BeginAuthenticate(p, "callMethod")

\* The response to the authentication request of p arrives: authenticate()
\* stores and returns the result, or throws its own error.
AuthResponseFrom(p, D) ==
    /\ pc[p] = "authWait"
    /\ Quiet
    /\ \E d \in D :
        LET o == AuthenticateOutcome(CallOutcome(d)) IN
        /\ resp' = [resp EXCEPT ![p] =
                        IF o.status = "returned" /\ op[p] # "authenticate"
                        THEN NoResponse ELSE d]
        /\ inflight' = [inflight EXCEPT ![p] = "none"]
        /\ sawFailure' = [sawFailure EXCEPT ![p] = @ \/ BadResponse(d)]
        /\ IF o.status = "returned"
           THEN /\ uid' = o.value
                /\ authed' = [ok |-> TRUE, id |-> o.value]
                /\ lastWriter' = "authenticate"
                /\ IF op[p] = "authenticate"
                   THEN /\ pc' = [pc EXCEPT ![p] = "done"]
                        /\ outcome' = [outcome EXCEPT ![p] = o]
                   ELSE /\ pc' = [pc EXCEPT ![p] = "afterAuth"]
                        /\ outcome' = outcome
           ELSE /\ pc' = [pc EXCEPT ![p] = "done"]
                /\ outcome' = [outcome EXCEPT ![p] = o]
                /\ UNCHANGED <<uid, authed, lastWriter>>
    /\ UNCHANGED <<sessionId, op, nAuth, nCall, cachedAtStart, afterLogout,
                   authEverSent>>

\* The response to the authentication request of p is d.
AuthResponseWith(p, d) == AuthResponseFrom(p, {d})

AuthResponse(p) == AuthResponseFrom(p, Responses)

\* A data operation, resumed after `await this.authenticate()`, posts its
\* request.
DataSend(p) ==
    /\ pc[p] = "afterAuth"
    /\ Quiet
    /\ pc' = [pc EXCEPT ![p] = "callWait"]
    /\ inflight' = [inflight EXCEPT ![p] = Endpoint(op[p])]
    /\ nCall' = [nCall EXCEPT ![p] = @ + 1]
    /\ UNCHANGED <<uid, sessionId, op, resp, outcome, nAuth, cachedAtStart,
                   sawFailure, authed, lastWriter, afterLogout, authEverSent>>

\* getUserInfo() posts its request without authenticating.
GetUserInfo(p) ==
    /\ pc[p] = "idle"
    /\ Quiet
    /\ op' = [op EXCEPT ![p] = "getUserInfo"]
    /\ cachedAtStart' = [cachedAtStart EXCEPT ![p] = HasSession(uid)]
    /\ pc' = [pc EXCEPT ![p] = "callWait"]
    /\ inflight' = [inflight EXCEPT ![p] = Endpoint("getUserInfo")]
    /\ nCall' = [nCall EXCEPT ![p] = @ + 1]
    /\ UNCHANGED <<uid, sessionId, resp, outcome, nAuth, sawFailure, authed,
                   lastWriter, afterLogout, authEverSent>>

\* logout() clears the session, then posts the destroy request.
Logout(p) ==
    /\ pc[p] = "idle"
    /\ Quiet
    /\ op' = [op EXCEPT ![p] = "logout"]
    /\ cachedAtStart' = [cachedAtStart EXCEPT ![p] = HasSession(uid)]
    /\ uid' = ClearedSession
    /\ sessionId' = ClearedSession
    /\ authed' = NotAuthed
    /\ lastWriter' = "logout"
    /\ afterLogout' = TRUE
    /\ pc' = [pc EXCEPT ![p] = "callWait"]
    /\ inflight' = [inflight EXCEPT ![p] = Endpoint("logout")]
    /\ nCall' = [nCall EXCEPT ![p] = @ + 1]
    /\ UNCHANGED <<resp, outcome, nAuth, sawFailure, authEverSent>>

\* A call() that posts its request again when the exchange failed.
CallResponse_Retry(p) ==
    /\ pc[p] = "callWait"
    /\ Quiet
    /\ \E d \in Responses :
        /\ resp' = [resp EXCEPT ![p] = d]
        /\ sawFailure' = [sawFailure EXCEPT ![p] = @ \/ BadResponse(d)]
        /\ IF CallOutcome(d).status = "threw"
           THEN /\ nCall' = [nCall EXCEPT ![p] = @ + 1]
                /\ UNCHANGED <<outcome, pc, inflight>>
           ELSE /\ outcome' = [outcome EXCEPT ![p] =
                                   OperationOutcome(op[p], CallOutcome(d))]
                /\ pc' = [pc EXCEPT ![p] = "done"]
                /\ inflight' = [inflight EXCEPT ![p] = "none"]
                /\ nCall' = nCall
    /\ UNCHANGED <<uid, sessionId, op, nAuth, cachedAtStart, authed,
                   lastWriter, afterLogout, authEverSent>>

\* The response to the request of the operation of p arrives: the operation
\* settles with the outcome of its call().
CallResponseFrom(p, D) ==
    /\ pc[p] = "callWait"
    /\ Quiet
    /\ \E d \in D :
        /\ resp' = [resp EXCEPT ![p] = d]
        /\ sawFailure' = [sawFailure EXCEPT ![p] = @ \/ BadResponse(d)]
        /\ outcome' = [outcome EXCEPT ![p] = OperationOutcome(op[p], CallOutcome(d))]
    /\ pc' = [pc EXCEPT ![p] = "done"]
    /\ inflight' = [inflight EXCEPT ![p] = "none"]
    /\ UNCHANGED <<uid, sessionId, op, nAuth, nCall, cachedAtStart, authed,
                   lastWriter, afterLogout, authEverSent>>

\* The response to the request of the operation of p is d.
CallResponseWith(p, d) == CallResponseFrom(p, {d})

CallResponse(p) == CallResponseFrom(p, Responses)

\* The caller takes the outcome of a settled invocation; p is free again.
Settle(p) ==
    /\ pc[p] = "done"
    /\ pc' = [pc EXCEPT ![p] = "idle"]
    /\ op' = [op EXCEPT ![p] = "none"]
    /\ resp' = [resp EXCEPT ![p] = NoResponse]
    /\ outcome' = [outcome EXCEPT ![p] = Pending]
    /\ nAuth' = [nAuth EXCEPT ![p] = 0]
    /\ nCall' = [nCall EXCEPT ![p] = 0]
    /\ cachedAtStart' = [cachedAtStart EXCEPT ![p] = FALSE]
    /\ sawFailure' = [sawFailure EXCEPT ![p] = FALSE]
    /\ UNCHANGED <<uid, sessionId, inflight, authed, lastWriter, afterLogout, authEverSent>>

\* The invocations of one client, whatever their arguments.
Next ==
    \E p \in Procs :
        \/ Authenticate(p) /\ UNCHANGED <<callVars, hookVars>>
        \/ SearchRead(p) /\ UNCHANGED <<callVars, hookVars>>
        \/ Create(p) /\ UNCHANGED <<callVars, hookVars>>
        \/ Write(p) /\ UNCHANGED <<callVars, hookVars>>
        \/ Unlink(p) /\ UNCHANGED <<callVars, hookVars>>
        \/ CallMethod(p) /\ UNCHANGED <<callVars, hookVars>>
        \/ GetUserInfo(p) /\ UNCHANGED <<callVars, hookVars>>
        \/ Logout(p) /\ UNCHANGED <<callVars, hookVars>>
        \/ AuthResponse(p) /\ UNCHANGED <<callVars, hookVars>>
        \/ DataSend(p) /\ UNCHANGED <<callVars, hookVars>>
        \/ CallResponse(p) /\ UNCHANGED <<callVars, hookVars>>
        \/ Settle(p) /\ UNCHANGED <<callVars, hookVars>>

Spec == Init /\ [][Next]_vars

TypeOK ==
    /\ uid \in {Null, Undefined} \cup { Num(n) : n \in ResultNums }
    /\ sessionId = Null
    /\ op \in [Procs -> Ops \cup {"none"}]
    /\ pc \in [Procs -> {"idle", "authWait", "afterAuth", "callWait", "done"}]
    /\ \A p \in Procs : outcome[p].status \in {"pending", "returned", "threw"}

(***************************************************************************)
(* One caller that runs one operation at a time, of the client or of the   *)
(* service facade, with its arguments; the client is the singleton of      *)
(* getOdooClient.                                                          *)
(***************************************************************************)
Caller == 1

\* getOdooClient(config?): constructs the client when there is none and
\* returns the singleton.  A new client has no session.
GetSingleton(hasC, c) ==
    /\ IF NeedsClient(odooClient, hasC)
       THEN /\ built' = built + 1
            /\ odooClient' = built + 1
            /\ config' = NewClientConfig(GetOdooClientConfig(hasC, c, env), env)
            /\ uid' = Null
            /\ sessionId' = Null
       ELSE UNCHANGED <<built, odooClient, config, uid, sessionId>>
    /\ got' = [later |-> odooClient # 0, instance |-> odooClient',
               hasConfig |-> hasC, config |-> c]

\* A caller calls getOdooClient with one of the configs C, or with none.
GetOdooClientFrom(C) ==
    /\ \A q \in DOMAIN pc : pc[q] = "idle"
    /\ \E hasC \in BOOLEAN :
        \E c \in (IF hasC THEN C ELSE {NoConfig}) : GetSingleton(hasC, c)
    /\ UNCHANGED <<op, pc, inflight, resp, outcome, nAuth, nCall, cachedAtStart,
                   sawFailure, authed, lastWriter, afterLogout, authEverSent>>
    /\ UNCHANGED <<env, args, request, facade, facadeOutcome, records, before>>

\* The arguments of the callers of searchRead: a domain, a field list and
\* options given or left out, and in the options a limit, an offset and an
\* order given or left out.
Given(x) == [has |-> TRUE, v |-> x]

LeftOut(x) == [has |-> FALSE, v |-> x]

OptionsChoices ==
    { [hasLimit |-> l.has, limit |-> l.v, hasOffset |-> o.has, offset |-> o.v,
       hasOrder |-> r.has, order |-> r.v] :
        l \in {LeftOut(0), Given(0), Given(2)},
        o \in {LeftOut(0), Given(0), Given(5)},
        r \in {LeftOut(""), Given(""), Given("name asc")} }

SearchReadArgs ==
    { [NoArgs EXCEPT !.model = "product.product",
                     !.hasDomain = d.has, !.domain = d.v,
                     !.hasFields = f.has, !.fields = f.v,
                     !.hasOptions = o.has, !.options = o.v] :
        d \in {LeftOut(<<>>), Given(<<>>), Given(<<Triplet("id", "=", Num(1))>>)},
        f \in {LeftOut(<<>>), Given(<<>>), Given(<<"name", "list_price">>)},
        o \in {LeftOut(NoOptions)} \cup { Given(x) : x \in OptionsChoices } }

CreateArgs == { [NoArgs EXCEPT !.model = "res.partner", !.values = b] : b \in Bags }

WriteArgs ==
    { [NoArgs EXCEPT !.model = "res.partner", !.ids = l, !.values = b] :
        l \in IdLists, b \in Bags }

UnlinkArgs == { [NoArgs EXCEPT !.model = "res.partner", !.ids = l] : l \in IdLists }

CallMethodArgs ==
    { [NoArgs EXCEPT !.model = "sale.order", !.method = "action_confirm",
                     !.hasArgs = a.has, !.args = a.v,
                     !.hasKwargs = k.has, !.kwargs = k.v] :
        a \in {LeftOut(<<>>), Given(<<>>), Given(<<IdsArg(<<1>>)>>)},
        k \in {LeftOut(EmptyObject), Given(EmptyObject),
               Given([EmptyObject EXCEPT !.keys = {"groupby"},
                                         !.groupby = <<"state">>])} }

\* What the start of operation o with arguments a leaves in args and in
\* request: authenticate() and the data operations post the credentials
\* unless there is a session, getUserInfo() and logout() post their request.
Invoke(o, a) ==
    /\ odooClient # 0
    /\ args' = a
    /\ request' = IF o \in {"getUserInfo", "logout"} THEN DataRequest(o, a)
                  ELSE IF HasSession(uid) THEN request
                  ELSE AuthRequest(config)
    /\ UNCHANGED <<env, odooClient, built, config, got, facade, facadeOutcome,
                   records, before>>

CallAuthenticate(p) == Authenticate(p) /\ Invoke("authenticate", NoArgs)

CallSearchRead(p) == \E a \in SearchReadArgs : SearchRead(p) /\ Invoke("searchRead", a)

CallCreate(p) == \E a \in CreateArgs : Create(p) /\ Invoke("create", a)

CallWrite(p) == \E a \in WriteArgs : Write(p) /\ Invoke("write", a)

CallUnlink(p) == \E a \in UnlinkArgs : Unlink(p) /\ Invoke("unlink", a)

CallCallMethod(p) == \E a \in CallMethodArgs : CallMethod(p) /\ Invoke("callMethod", a)

CallGetUserInfo(p) == GetUserInfo(p) /\ Invoke("getUserInfo", NoArgs)

CallLogout(p) == Logout(p) /\ Invoke("logout", NoArgs)

\* The inputs of the callers of operation f of the facade.
FacadeInputs(f) ==
    CASE f \in {"products.getAll", "partners.getAll", "inventory.getStockMoves"} ->
            { [NoInput EXCEPT !.hasLimit = l.has, !.limit = l.v] :
                l \in {LeftOut(0), Given(0), Given(2)} }
      [] f = "salesOrders.getAll" ->
            { [NoInput EXCEPT !.hasLimit = l.has, !.limit = l.v,
                              !.hasOffset = o.has, !.offset = o.v] :
                l \in {LeftOut(0), Given(0), Given(2)}, o \in {LeftOut(0), Given(5)} }
      [] f = "products.getById" -> { [NoInput EXCEPT !.id = i] : i \in Ids }
      [] f \in {"products.create", "salesOrders.create", "partners.create"} ->
            { [NoInput EXCEPT !.bag = b] : b \in Bags }
      [] f = "products.update" ->
            { [NoInput EXCEPT !.id = i, !.bag = b] : i \in Ids, b \in Bags }
      [] f \in {"salesOrders.getByDateRange", "analytics.getSalesReport"} ->
            { [NoInput EXCEPT !.startDate = Str(1), !.endDate = e] :
                e \in {Str(1), Str(2)} }
      [] f = "partners.search" -> { [NoInput EXCEPT !.term = t] : t \in {Str(1), Str(2)} }
      [] OTHER ->
            { [NoInput EXCEPT !.hasProductId = i.has, !.productId = i.v] :
                i \in {LeftOut(0), Given(0), Given(1)} }

\* Operation f of the facade: getOdooClient() and the call of the client,
\* whose promise it returns.
Facade(p, f) ==
    \E x \in FacadeInputs(f) :
        LET c == FacadeCall(f, x) IN
        /\ GetSingleton(FALSE, NoConfig)
        /\ BeginAuthenticate(p, c.op)
        /\ args' = c.args
        /\ facade' = [name |-> f, x |-> x]
        /\ request' = IF HasSession(uid) THEN request ELSE AuthRequest(config')
        /\ UNCHANGED <<env, facadeOutcome, records, before>>

\* The promise of the operation of the facade in progress settles with the
\* promise of the client.
FacadeSettles(p) ==
    facadeOutcome' = IF facade.name # "none" /\ pc'[p] = "done"
                     THEN FacadeResult(outcome'[p])
                     ELSE facadeOutcome

\* The answer to the authentication request of p.
AuthAnswer(p) ==
    /\ AuthResponseFrom(p, AuthAnswers)
    /\ FacadeSettles(p)
    /\ UNCHANGED <<env, odooClient, built, config, got, args, request, facade,
                   records, before>>

\* The data operation of p posts its request, built from its arguments.
SendData(p) ==
    /\ DataSend(p)
    /\ request' = DataRequest(op[p], args)
    /\ before' = records
    /\ UNCHANGED <<env, odooClient, built, config, got, args, facade,
                   facadeOutcome, records>>

\* The answer to the request of the operation of p; the server has applied
\* a write request to the ids and with the value bag of the request, or not.
CallAnswer(p) ==
    /\ CallResponseFrom(p, Answers(op[p]))
    /\ FacadeSettles(p)
    /\ IF op[p] = "write"
       THEN \E applied \in WriteApplied(resp'[p]) :
                records' = IF applied
                           THEN ServerWrite(records, request.args[1].ids,
                                            request.args[2].bag)
                           ELSE records
       ELSE records' = records
    /\ UNCHANGED <<env, odooClient, built, config, got, args, request, facade,
                   before>>

\* The caller takes the outcome and is free for its next operation.
Settled(p) ==
    /\ Settle(p)
    /\ args' = NoArgs
    /\ request' = NoRequest
    /\ facade' = NoFacade
    /\ facadeOutcome' = Pending
    /\ before' = records
    /\ UNCHANGED <<env, odooClient, built, config, got, records>>

\* The caller runs the data operations of the client that the tests
\* constructed, and the operations of the facade.
NextCalls ==
    \/ CallSearchRead(Caller) /\ UNCHANGED hookVars
    \/ CallCreate(Caller) /\ UNCHANGED hookVars
    \/ CallWrite(Caller) /\ UNCHANGED hookVars
    \/ CallUnlink(Caller) /\ UNCHANGED hookVars
    \/ CallCallMethod(Caller) /\ UNCHANGED hookVars
    \/ \E f \in FacadeOps : Facade(Caller, f) /\ UNCHANGED hookVars
    \/ AuthAnswer(Caller) /\ UNCHANGED hookVars
    \/ SendData(Caller) /\ UNCHANGED hookVars
    \/ CallAnswer(Caller) /\ UNCHANGED hookVars
    \/ Settled(Caller) /\ UNCHANGED hookVars

InitCalls == TestClient /\ HooksIdle

SpecCalls == InitCalls /\ [][NextCalls]_vars

(***************************************************************************)
(* The singleton.  No client exists at first; the callers get the client   *)
(* with a config or without one, in an environment that has the url and    *)
(* the database or lacks them, and run its operations.                     *)
(***************************************************************************)
EnvChoices == {NoConfig, EnvConfig}

ConfigChoices ==
    {TestConfig, NoConfig, [url |-> "https://test.odoo.com", db |-> ""]}

GetOdooClient == GetOdooClientFrom(ConfigChoices)

InitSingleton ==
    /\ ClientInit(Procs)
    /\ env \in EnvChoices
    /\ odooClient = 0
    /\ built = 0
    /\ config = NoConfig
    /\ got = NotGot
    /\ args = NoArgs
    /\ request = NoRequest
    /\ facade = NoFacade
    /\ facadeOutcome = Pending
    /\ records = NoRecords
    /\ before = NoRecords
    /\ HooksIdle

NextSingleton ==
    \/ GetOdooClient /\ UNCHANGED hookVars
    \/ CallAuthenticate(Caller) /\ UNCHANGED hookVars
    \/ CallCreate(Caller) /\ UNCHANGED hookVars
    \/ CallGetUserInfo(Caller) /\ UNCHANGED hookVars
    \/ CallLogout(Caller) /\ UNCHANGED hookVars
    \/ \E f \in FacadeOps : Facade(Caller, f) /\ UNCHANGED hookVars
    \/ AuthAnswer(Caller) /\ UNCHANGED hookVars
    \/ SendData(Caller) /\ UNCHANGED hookVars
    \/ CallAnswer(Caller) /\ UNCHANGED hookVars
    \/ Settled(Caller) /\ UNCHANGED hookVars

SpecSingleton == InitSingleton /\ [][NextSingleton]_vars

(***************************************************************************)
(* Concurrent first calls.  Several call sites start authenticate() and    *)
(* searchRead() on the client while other invocations are awaiting their   *)
(* responses.                                                              *)
(***************************************************************************)
\* The number of call sites.
NumRacers == 3

Racers == 1..NumRacers

\* The answers to the authentication requests and to the search_read
\* requests of the call sites.
RaceAuthAnswers == {Success(Num(7)), Success(Num(0)), Invalid}

RaceCallAnswers == {Success(List(2))}

RaceAuthResponse(p) == AuthResponseFrom(p, RaceAuthAnswers)

RaceCallResponse(p) == CallResponseFrom(p, RaceCallAnswers)

InitRace ==
    /\ ClientInit(Racers)
    /\ env = NoConfig
    /\ odooClient = 1
    /\ built = 1
    /\ config = NewClientConfig(TestConfig, NoConfig)
    /\ got = [later |-> FALSE, instance |-> 1, hasConfig |-> TRUE, config |-> TestConfig]
    /\ args = NoArgs
    /\ request = NoRequest
    /\ facade = NoFacade
    /\ facadeOutcome = Pending
    /\ records = NoRecords
    /\ before = NoRecords
    /\ HooksIdle

NextRace ==
    \E p \in Racers :
        \/ Authenticate(p) /\ UNCHANGED <<callVars, hookVars>>
        \/ SearchRead(p) /\ UNCHANGED <<callVars, hookVars>>
        \/ RaceAuthResponse(p) /\ UNCHANGED <<callVars, hookVars>>
        \/ DataSend(p) /\ UNCHANGED <<callVars, hookVars>>
        \/ RaceCallResponse(p) /\ UNCHANGED <<callVars, hookVars>>
        \/ Settle(p) /\ UNCHANGED <<callVars, hookVars>>

SpecRace == InitRace /\ [][NextRace]_vars

(***************************************************************************)
(* The hooks, each with the events of its own.                             *)
(***************************************************************************)
InitAuth ==
    /\ TestClient
    /\ hooks = [auth |-> AuthMounted, table |-> Unmounted, bcast |-> Unmounted]

NextAuth ==
    \/ GetSessionAnswer
    \/ InitProfileFetched
    \/ \E u \in SessionUsers \cup {NoUser} : AuthStateChange(u)
    \/ \E u \in SessionUsers : ProfileFetched(u)
    \/ AuthRender
    \/ \E fn \in SignFunctions : SignCall(fn)
    \/ \E fn \in SignFunctions : SignAnswer(fn)
    \/ UpdateProfileCall
    \/ UpdateProfileAnswer
    \/ AuthUnmount

SpecAuth == InitAuth /\ [][NextAuth]_vars

InitTable ==
    /\ TestClient
    /\ hooks \in { [auth |-> Unmounted, table |-> TableMounted(g, st, l),
                      bcast |-> Unmounted] :
                       g \in BOOLEAN, st \in BOOLEAN, l \in InitialLists }

NextTable ==
    \/ \E e \in Changes : TableChange(e)
    \/ \E status \in SubscribeStatuses : TableStatus(status)
    \/ TableRender
    \/ TableEffect
    \/ TableUnmount

SpecTable == InitTable /\ [][NextTable]_vars

InitBroadcast ==
    /\ TestClient
    /\ hooks = [auth |-> Unmounted, table |-> Unmounted, bcast |-> BroadcastMounted]

NextBroadcast ==
    \/ \E k \in 1..MaxChannels, status \in SubscribeStatuses : BroadcastStatus(k, status)
    \/ BroadcastReceive
    \/ Broadcast
    \/ BroadcastRender
    \/ BroadcastChannelChange
    \/ BroadcastEffect
    \/ BroadcastUnmount

SpecBroadcast == InitBroadcast /\ [][NextBroadcast]_vars

(***************************************************************************)
(* The claims.                                                             *)
(***************************************************************************)
\* The invocation p has settled and its caller holds the outcome.
Done(p) == pc[p] = "done"

\* This step is the start of an invocation p of one of the operations in O.
Begins(p, O) == pc[p] = "idle" /\ op'[p] \in O

\* The invocation p failed in its authentication step.
FailedInAuthentication(p) ==
    /\ Done(p)
    /\ op[p] \in DataOps \cup {"authenticate"}
    /\ outcome[p].status = "threw"
    /\ nCall[p] = 0

\* The invocation p of a data operation failed in the data call itself.
FailedInDataCall(p) ==
    /\ Done(p)
    /\ op[p] \in DataOps
    /\ outcome[p].status = "threw"
    /\ nCall[p] = 1

\* C1: once an authenticate() has succeeded with an id of the server and no
\* logout() has run since, every authenticate() that starts returns that
\* cached id and sends no authentication request, whatever the id is.
C1_CachedAuthenticate ==
    [][\A p \in Procs :
          (authed.ok /\ authed.id.t = "number" /\ Begins(p, {"authenticate"}))
              => /\ nAuth'[p] = 0
                 /\ inflight'[p] = "none"
                 /\ outcome'[p] = Returned(authed.id)]_vars

\* C2: whenever a request to a dataset endpoint is sent, the client holds a
\* cached session id (a number, not null or undefined) and an authentication
\* request has been sent before.
C2_DataCallHasSession ==
    [][\A p \in Procs :
          (inflight[p] \notin DatasetEndpoints /\ inflight'[p] \in DatasetEndpoints)
              => /\ uid.t = "number"
                 /\ authEverSent]_vars

\* C3, as claimed: logout() leaves the cached session id cleared and its
\* promise never rejects.
C3_LogoutNeverRaises ==
    /\ lastWriter = "logout" => uid = Null
    /\ \A p \in Procs :
          (Done(p) /\ op[p] = "logout") => outcome[p].status = "returned"

\* C3, amended: logout() leaves the cached session id cleared, whether or not
\* a session existed; its promise rejects exactly when the destroy request
\* ended in a transport failure, in a null body or in an envelope with an
\* error object.
C3_LogoutRaisesOnlyRequestFailure ==
    /\ lastWriter = "logout" => (uid = Null /\ sessionId = Null)
    /\ \A p \in Procs :
          (Done(p) /\ op[p] = "logout")
              => IF resp[p].kind \in {"transport", "nullBody"} \/ resp[p].hasError
                 THEN outcome[p].status = "threw"
                 ELSE outcome[p].status = "returned"

\* A logout() on a client without a session has completed without raising.
C3_Witness ==
    \E p \in Procs :
        /\ Done(p)
        /\ op[p] = "logout"
        /\ ~cachedAtStart[p]
        /\ outcome[p].status = "returned"
        /\ uid = Null

\* C4: the first authenticate() or data operation that starts after a
\* logout() sends a request to the authentication endpoint before anything
\* else.
C4_ReauthAfterLogout ==
    [][\A p \in Procs :
          (afterLogout /\ Begins(p, DataOps \cup {"authenticate"}))
              => /\ inflight'[p] = AuthEndpoint
                 /\ nAuth'[p] = 1]_vars

\* C5: when the response that ended an invocation carries an error object,
\* the error raised to the caller carries the server's code, message and data.
C5_ErrorVerbatim ==
    \A p \in Procs :
        (Done(p) /\ resp[p].kind = "envelope" /\ resp[p].hasError)
            => /\ outcome[p].status = "threw"
               /\ outcome[p].err.message = resp[p].error.message
               /\ outcome[p].err.hasCode
               /\ outcome[p].err.code = resp[p].error.code
               /\ outcome[p].err.hasData
               /\ outcome[p].err.data = resp[p].error.data

\* C6: when the authentication request is answered with an error object, the
\* error raised carries the message the server reported.
C6_AuthErrorCarriesReason ==
    \A p \in Procs :
        (FailedInAuthentication(p) /\ resp[p].kind = "envelope" /\ resp[p].hasError)
            => outcome[p].err.message = resp[p].error.message

\* The errors a failed authentication raises, over all responses.
AuthFailureErrors ==
    { AuthenticateOutcome(CallOutcome(d)).err :
          d \in { r \in Responses : CallOutcome(r).status = "threw" } }

\* C7: the error of a failed data call is never one that a failed
\* authentication raises, so the caller can tell the two apart.
C7_AuthFailureDistinct ==
    \A p \in Procs :
        FailedInDataCall(p) => outcome[p].err \notin AuthFailureErrors

\* C8: a data call that ends without a usable HTTP response raises an
\* AxiosError (or, for a null body, a TypeError), and one that ends in an
\* envelope with an error object raises a plain Error that
\* axios.isAxiosError rejects: two kinds the caller can tell apart.
C8_TransportVsProtocol ==
    \A p \in Procs :
        (Done(p) /\ op[p] \in DataOps /\ nCall[p] = 1)
            => /\ resp[p].kind = "transport"
                    => (outcome[p].status = "threw" /\ IsAxiosError(outcome[p].err))
               /\ resp[p].kind = "nullBody"
                    => (outcome[p].status = "threw" /\ outcome[p].err.name = "TypeError")
               /\ (resp[p].kind = "envelope" /\ resp[p].hasError)
                    => /\ outcome[p].status = "threw"
                       /\ outcome[p].err.name = "Error"
                       /\ ~IsAxiosError(outcome[p].err)

\* A data operation on a client with a session has failed with the error of
\* an envelope that carries an error object.
C8_Witness ==
    \E p \in Procs :
        /\ FailedInDataCall(p)
        /\ cachedAtStart[p]
        /\ resp[p].kind = "envelope"
        /\ resp[p].hasError
        /\ ~IsAxiosError(outcome[p].err)

\* C9: an invocation sends at most one authentication request and at most
\* one request of its operation; after a bad response to its authentication
\* request it has no authentication request in flight, and once it has
\* settled it has no request in flight.
C9_NoRetry ==
    \A p \in Procs :
        /\ nAuth[p] <= 1
        /\ nCall[p] <= 1
        /\ sawFailure[p] => inflight[p] # AuthEndpoint
        /\ Done(p) => inflight[p] = "none"

\* A data operation has sent its authentication request and its data request
\* and failed.
C9_Witness ==
    \E p \in Procs :
        /\ FailedInDataCall(p)
        /\ nAuth[p] = 1
        /\ sawFailure[p]

\* C10: an invocation in which a request ended in a transport failure, an
\* error object or an envelope with neither result nor error ends in a
\* failure at the caller.
C10_NoFailureSuppressed ==
    \A p \in Procs :
        (Done(p) /\ sawFailure[p]) => outcome[p].status = "threw"

\* C11: on a client whose url or database is missing no request is in
\* flight, and every operation that has settled has failed.
C11_FailFastOnMissingConfig ==
    (odooClient # 0 /\ (config.url = "" \/ config.db = ""))
        => \A p \in Procs :
              /\ inflight[p] = "none"
              /\ Done(p) => outcome[p].status = "threw"

\* The options of the searchRead() in progress ({} when left out).
GivenOptions == IF args.hasOptions THEN args.options ELSE NoOptions

\* The search_read request of the searchRead() of the caller is posted.
SearchReadPosted ==
    /\ op[Caller] = "searchRead"
    /\ request.endpoint = Endpoint("searchRead")

\* C12: the search_read request carries the limit, the offset and the order
\* the caller supplied, whatever their values, and 80, 0 and '' for those
\* the caller left out.
C12_OptionsOverrideDefaults ==
    SearchReadPosted
        => /\ request.limit =
                  IF GivenOptions.hasLimit THEN GivenOptions.limit ELSE 80
           /\ request.offset =
                  IF GivenOptions.hasOffset THEN GivenOptions.offset ELSE 0
           /\ request.sort =
                  IF GivenOptions.hasOrder THEN GivenOptions.order ELSE ""

\* C13: a searchRead() whose search_read request is answered with the empty
\* list returns the empty list and raises nothing, whatever the domain.
C13_EmptyResultIsEmptySequence ==
    (Done(Caller) /\ SearchReadPosted /\ resp[Caller] = Success(List(0)))
        => outcome[Caller] = Returned(List(0))

\* A searchRead() with a domain that is not empty has returned the empty
\* list of the server.
C13_Witness ==
    /\ Done(Caller)
    /\ SearchReadPosted
    /\ args.hasDomain
    /\ args.domain # <<>>
    /\ resp[Caller] = Success(List(0))
    /\ outcome[Caller] = Returned(List(0))

\* C14: the search_read request carries the model, the domain and the field
\* list of the caller (an empty field list as the empty list), and the
\* request of callMethod() goes to call_kw with the model, the method, the
\* positional and the keyword arguments of the caller.
C14_ArgumentsUnmodified ==
    /\ SearchReadPosted
          => /\ request.model = args.model
             /\ args.hasDomain => request.domain = args.domain
             /\ args.hasFields => request.fields = args.fields
    /\ (op[Caller] = "callMethod" /\ request.endpoint # AuthEndpoint
            /\ request.endpoint # "none")
          => /\ request.endpoint = "/web/dataset/call_kw"
             /\ request.model = args.model
             /\ request.method = args.method
             /\ args.hasArgs => request.args = args.args
             /\ args.hasKwargs => request.kwargs = args.kwargs

\* The request of a searchRead() with a domain and an empty field list is in
\* flight.
C14_Witness ==
    /\ SearchReadPosted
    /\ inflight[Caller] = Endpoint("searchRead")
    /\ args.hasDomain
    /\ args.domain # <<>>
    /\ args.hasFields
    /\ args.fields = <<>>
    /\ request.fields = <<>>

\* C15: a create() whose request is answered with a result and no error
\* returns that result, and one answered with an error object raises a
\* plain Error with the message of the server.
C15_CreateResult ==
    (Done(Caller) /\ op[Caller] = "create" /\ nCall[Caller] = 1)
        => /\ (resp[Caller].kind = "envelope" /\ resp[Caller].hasResult
                  /\ ~resp[Caller].hasError)
                => outcome[Caller] = Returned(resp[Caller].result)
           /\ (resp[Caller].kind = "envelope" /\ resp[Caller].hasError)
                => /\ outcome[Caller].status = "threw"
                   /\ outcome[Caller].err.name = "Error"
                   /\ outcome[Caller].err.message = resp[Caller].error.message

\* create('res.partner', {name: 'Acme'}) answered {result: 42} has
\* returned 42.
C15_Witness ==
    /\ Done(Caller)
    /\ op[Caller] = "create"
    /\ args.model = "res.partner"
    /\ args.values = "{name: 'Acme'}"
    /\ resp[Caller] = Success(Num(42))
    /\ outcome[Caller] = Returned(Num(42))

\* The write() of the caller has settled after its call_kw request was
\* posted.
WriteDone ==
    /\ Done(Caller)
    /\ op[Caller] = "write"
    /\ nCall[Caller] = 1

\* The records when the write of the caller is applied to each of its ids.
AllUpdated == ServerWrite(before, args.ids, args.values)

\* C16, as claimed: a write() that returned true has changed every record of
\* its id list, and a write() that raised has changed no record.
C16_WriteFailsUnchanged ==
    WriteDone
        => /\ outcome[Caller] = Returned(Bool(1)) => records = AllUpdated
           /\ outcome[Caller].status = "threw" => records = before

\* C16, amended: a write() that returned true has changed every record of
\* its id list and no other; one that raised the error of an error object
\* has changed no record; one that raised a failure of the exchange has
\* changed either every record of its id list or none.
C16_WriteAtomicOutcome ==
    WriteDone
        => /\ outcome[Caller] = Returned(Bool(1)) => records = AllUpdated
           /\ (outcome[Caller].status = "threw" /\ ~IsAxiosError(outcome[Caller].err))
                => (resp[Caller].hasError /\ records = before)
           /\ (outcome[Caller].status = "threw" /\ IsAxiosError(outcome[Caller].err))
                => records \in {before, AllUpdated}

\* A write() over two ids has raised a failure of the exchange and both
\* records have the new values.
C16_Witness ==
    /\ WriteDone
    /\ Len(args.ids) = 2
    /\ IsAxiosError(outcome[Caller].err)
    /\ records = AllUpdated
    /\ records # before

\* C17: a write() and an unlink() post at most one request to call_kw, which
\* carries the whole id list of the caller (and, for write(), its one value
\* bag); they return the boolean the server answered, and raise on an error
\* object with no request left in flight.
C17_OneRequestWholeIdSet ==
    op[Caller] \in {"write", "unlink"}
        => /\ nCall[Caller] <= 1
           /\ nCall[Caller] = 1
                => /\ request.endpoint = "/web/dataset/call_kw"
                   /\ request.model = args.model
                   /\ request.method = op[Caller]
                   /\ request.args[1] = IdsArg(args.ids)
                   /\ op[Caller] = "write"
                        => (Len(request.args) = 2 /\ request.args[2] = BagArg(args.values))
                   /\ op[Caller] = "unlink" => Len(request.args) = 1
           /\ (Done(Caller) /\ nCall[Caller] = 1)
                => /\ inflight[Caller] = "none"
                   /\ resp[Caller].hasError => outcome[Caller].status = "threw"
                   /\ (resp[Caller].hasResult /\ ~resp[Caller].hasError)
                        => outcome[Caller] = Returned(resp[Caller].result)

\* An unlink() over two ids has returned the false of the server.
C17_Witness ==
    /\ Done(Caller)
    /\ op[Caller] = "unlink"
    /\ Len(args.ids) = 2
    /\ nCall[Caller] = 1
    /\ outcome[Caller] = Returned(Bool(0))

\* C19: no client exists before the first call of getOdooClient; every call
\* returns the one client ever constructed; and a call made when the client
\* exists changes neither the client nor its config, whatever config the
\* call is given.
C19_LazySingleton ==
    /\ [](/\ built <= 1
          /\ built = 0 <=> got = NotGot
          /\ odooClient = built
          /\ got # NotGot => got.instance = 1)
    /\ [][odooClient # 0
            => /\ odooClient' = odooClient
               /\ config' = config
               /\ built' = built]_vars

\* A later call of getOdooClient, given a config with another database than
\* that of the client, has returned the first client.
C19_Witness ==
    /\ got.later
    /\ got.hasConfig
    /\ got.config.db # config.db
    /\ got.instance = 1
    /\ built = 1

\* The call of the client that the operation of the facade in progress
\* makes.
FacadeMakes == FacadeCall(facade.name, facade.x)

\* C20: while an operation of the facade is in progress, the promise of its
\* caller is pending until the promise of the client settles and then has
\* the same outcome, value or error; a create and an update post the value
\* bag of the caller; and an operation that has returned a value has posted
\* its own request.
C20_FacadePassThrough ==
    facade.name # "none"
        => /\ op[Caller] = FacadeMakes.op
           /\ facadeOutcome = IF Done(Caller) THEN outcome[Caller] ELSE Pending
           /\ (Done(Caller) /\ outcome[Caller].status = "returned")
                => /\ nCall[Caller] = 1
                   /\ outcome[Caller].value = resp[Caller].result
           /\ (nCall[Caller] = 1 /\ op[Caller] \in {"create", "write"})
                => request.args[Len(request.args)] = BagArg(facade.x.bag)

\* An update of the facade has raised the error of the server's error
\* object.
C20_Witness ==
    /\ facade.name = "products.update"
    /\ Done(Caller)
    /\ nCall[Caller] = 1
    /\ facadeOutcome.status = "threw"
    /\ facadeOutcome.err.message = "Invalid"
    /\ facade.x.bag = "{name: 'Bolt'}"

\* The invocations whose authentication request is in flight.
Authenticating == { p \in Racers : inflight[p] = AuthEndpoint }

\* C18, as claimed: while no id has been cached, at most two authentication
\* requests are in flight.
C18_AtMostTwoAuthRequests ==
    (uid = Null /\ lastWriter = "none") => Cardinality(Authenticating) <= 2

\* C18, amended: every authenticate() and every data operation that starts
\* while the client holds no id, or a falsy one, posts an authentication
\* request of its own, whatever requests are in flight; no invocation posts
\* more than one.
C18_EachFirstCallAuthenticates ==
    /\ [][\A p \in Racers :
            (Begins(p, DataOps \cup {"authenticate"}) /\ ~Truthy(uid))
                => /\ inflight'[p] = AuthEndpoint
                   /\ nAuth'[p] = 1
                   /\ Authenticating' = Authenticating \cup {p}]_vars
    /\ [](\A p \in Racers : nAuth[p] <= 1)

\* Three operations have started on a client that never cached an id, and
\* three authentication requests are in flight.
C18_Witness ==
    /\ uid = Null
    /\ lastWriter = "none"
    /\ Cardinality(Authenticating) = 3

\* The search_read request of the operation of the facade in progress is
\* posted.
FacadePosted(F) ==
    /\ facade.name \in F
    /\ request.endpoint = Endpoint("searchRead")

\* C21: the search_read request of a 'get all' of the facade has the page
\* size of the caller as its limit, whatever it is, and 100 when the caller
\* gave none; sales orders are sorted by date_order desc and stock moves by
\* date desc.
C21_GetAllPageSize ==
    /\ FacadePosted({"products.getAll", "salesOrders.getAll", "partners.getAll",
                     "inventory.getStockMoves"})
          => request.limit = IF facade.x.hasLimit THEN facade.x.limit ELSE 100
    /\ FacadePosted({"salesOrders.getAll"}) => request.sort = "date_order desc"
    /\ FacadePosted({"inventory.getStockMoves"}) => request.sort = "date desc"

\* C26: the search_read request of a read of the facade that passes no
\* options has limit 80, offset 0 and no sort.
C26_ReadsWithoutOptions ==
    FacadePosted({"products.getById", "salesOrders.getByDateRange",
                  "partners.search", "inventory.getStock"})
        => /\ request.limit = 80
           /\ request.offset = 0
           /\ request.sort = ""
           /\ ~args.hasOptions

\* The request of a search of partners is in flight with limit 80.
C26_Witness ==
    /\ FacadePosted({"partners.search"})
    /\ inflight[Caller] = Endpoint("searchRead")
    /\ request.limit = 80
    /\ request.offset = 0

\* C27: the search_read request of getStock has the domain
\* [product_id = productId] for every productId the caller gave, and the
\* empty domain only when the caller gave none.
C27_GetStockDomain ==
    FacadePosted({"inventory.getStock"})
        => request.domain =
               IF facade.x.hasProductId
               THEN <<Triplet("product_id", "=", Num(facade.x.productId))>>
               ELSE <<>>

\* C22: while logout() is the last thing the callers started, the answer to
\* an authentication request that was in flight when logout() ran leaves the
\* cached id empty.
C22_StaleAuthenticationIgnored ==
    [][\A p \in Procs :
          (afterLogout /\ pc[p] = "authWait" /\ pc'[p] # "authWait")
              => uid' = ClearedSession]_vars

\* The responses for which call() throws: no usable HTTP response, or an
\* envelope with an error object.
FailedExchanges ==
    { d \in Responses : d.kind \in {"transport", "nullBody"} \/ d.hasError }

\* C23: when the authentication request of a data operation of the caller
\* ends in a failed exchange, the operation fails there: no request of its
\* own is posted or in flight, and the cached id stays empty; the operation
\* the caller starts on a client whose cached id is empty posts an
\* authentication request.
C23_FailedAuthenticationStopsOperation ==
    [][/\ (pc[Caller] = "authWait" /\ pc'[Caller] # "authWait"
                                   /\ op[Caller] \in DataOps)
            => \A d \in FailedExchanges :
                  AuthResponseWith(Caller, d)
                      => /\ pc'[Caller] = "done"
                         /\ outcome'[Caller].status = "threw"
                         /\ nCall'[Caller] = 0
                         /\ inflight'[Caller] = "none"
                         /\ request'.endpoint = AuthEndpoint
                         /\ uid' = uid
                         /\ uid' = Null
       /\ (Begins(Caller, DataOps) /\ uid = Null)
            => /\ inflight'[Caller] = AuthEndpoint
               /\ nAuth'[Caller] = 1]_vars

\* A data operation of the caller failed in its authentication on a
\* transport failure, the authentication request is the last request posted
\* and the cached id is empty.
C23_Witness ==
    /\ FailedInAuthentication(Caller)
    /\ op[Caller] \in DataOps
    /\ resp[Caller].kind = "transport"
    /\ inflight[Caller] = "none"
    /\ request.endpoint = AuthEndpoint
    /\ uid = Null

\* C24: a data call that ends in a failed exchange leaves the cached id as
\* it was and sends no authentication request; an operation that starts on a
\* client that holds an id sends no authentication request.
C24_FailedDataCallKeepsSession ==
    [][\A p \in Procs :
          /\ (pc[p] = "callWait" /\ pc'[p] # "callWait" /\ op[p] \in DataOps)
                => \A d \in FailedExchanges :
                      CallResponseWith(p, d)
                          => /\ uid' = uid
                             /\ nAuth' = nAuth
                             /\ outcome'[p].status = "threw"
          /\ (Begins(p, DataOps) /\ uid.t = "number")
                => /\ nAuth'[p] = 0
                   /\ inflight'[p] # AuthEndpoint]_vars

\* C25: once initAuth and every handler of an auth event have finished,
\* the user and the session of the mounted hook are those of the last auth
\* event, and the state has no user and no profile when that event carried
\* no session.
C25_StateReflectsLastEvent ==
    (/\ auth.mounted
     /\ auth.events > 0
     /\ \A u \in SessionUsers : auth.handlers[u] = 0
     /\ auth.init.at = "done")
        => /\ auth.state.user = auth.last
           /\ auth.state.session = auth.last
           /\ auth.last = NoUser => auth.state.profile = NoProfile

\* The list l after the change events es, applied from the first to the last.
RECURSIVE ApplyAll(_, _)
ApplyAll(l, es) ==
    IF es = <<>> THEN l ELSE ApplyAll(ApplyChange(l, Head(es)), Tail(es))

\* C28: the data list a render returns, when no state change waits for its
\* render, is the initial list with the change events applied in the order
\* of their arrival.
C28_DataIsInitialWithChanges ==
    ~table.render => table.shown.data = ApplyAll(table.initialData, table.changes)

\* C29: a call of broadcast() made when the channel is removed, or when the
\* last status the channel reported is not SUBSCRIBED, sends nothing.
C29_SendsOnlyWhileSubscribed ==
    [][(bcast'.calls # bcast.calls
           /\ ~(bcast.channelRef # 0 /\ bcast.status = "SUBSCRIBED"))
          => bcast'.sent = bcast.sent /\ bcast'.last = "nothing"]_vars

\* C30: in a render with any state of the hook, whatever the allowedRoles
\* argument, the route is allowed only with a user in the state, and with a
\* non-empty allowedRoles only with a profile whose role is in the list.
C30_AllowedNeedsUserAndRole ==
    \A a \in AllowedRolesChoices :
        LET r == UseProtectedRoute(auth.state, a) IN
        r.isAllowed
            => /\ r.user # NoUser
               /\ (a.given /\ a.list # <<>>)
                     => /\ r.profile # NoProfile
                        /\ \E i \in DOMAIN a.list : a.list[i] = r.profile.role

\* A state with a signed-in user whose profile has one of the roles of a
\* non-empty list: the route is allowed.
C30_Witness ==
    /\ auth.state.user # NoUser
    /\ auth.state.profile.role = "store_owner"
    /\ \E a \in AllowedRolesChoices :
           /\ a.given
           /\ Len(a.list) = 2
           /\ UseProtectedRoute(auth.state, a).isAllowed

====
